---- MODULE Spec2Model ----
(***************************************************************************)
(* A model of the ChessU rewards server (server/server.js): the per-IP     *)
(* rate limiter with its hourly clean-up, and the POST /api/puzzle/solve   *)
(* handler with the wallet calls it awaits.                                *)
(*                                                                         *)
(* Time is Date.now(), in milliseconds.  Absolute clock values are kept    *)
(* small (TLC integers are 32 bit); the code only ever subtracts two       *)
(* clock values, except for the truthiness test of a stored timestamp,     *)
(* which is why the clock value 0 is among the start times.                *)
(***************************************************************************)
EXTENDS Integers, Sequences, FiniteSets, TLC

VARIABLES
    now,            \* the value Date.now() returns
    ticks,          \* how often the clock has advanced (bounds the model)
    nextSweepAt,    \* when the setInterval timer is next due
    rateLimitMap,   \* Map: IP -> lastSolveTime; absent keys are outside DOMAIN
    lastCall,       \* the latest checkRateLimit call and what it returned
    lastAllowedAt,  \* history: per IP, the time of its latest allowed call
    evicted,        \* history: the IPs a sweep deleted and that have not called since
    deniedSince,    \* history: the IPs a direct call denied since their latest allowed one
    unsweptMap,     \* history: the map the same calls leave when no clean-up ever runs
    activeMode,     \* config.activeMode
    walletBalances, \* what manager.wallet.getBalances() resolves to
    req,            \* the solve requests: per slot, its body and progress
    boot,           \* the start of the process: where it stands, what failed
    dataset,        \* puzzlesData as loaded from easy_puzzles.json
    api,            \* the request to another endpoint and its progress
    quotes          \* the wallet's mint quotes: per quote id, amount and state

\* What the other endpoints and the start of the process add to the state
appVars == <<boot, dataset, api, quotes>>

vars == <<now, ticks, nextSweepAt, rateLimitMap, lastCall, lastAllowedAt,
          evicted, deniedSince, unsweptMap, activeMode, walletBalances, req,
          appVars>>

----------------------------------------------------------------------------
(* Bounds of the model *)

MaxTicks == 3

----------------------------------------------------------------------------
(* Configuration *)

puzzleReward == 10
rateLimitSeconds == 5
rateLimitMs == rateLimitSeconds * 1000
KeepFactor == 10
SweepIntervalMs == 60 * 60 * 1000

testMint == "https://nofees.testnut.cashu.space"
mainMint == "https://mint.minibits.cash/Bitcoin"
Mints == {testMint, mainMint}
activeMint == IF activeMode = "main" THEN mainMint ELSE testMint

Clients == {"10.0.0.1", "10.0.0.2"}
StartTimes == {0, 1000}
TickSteps == {1, 2000, 3000, 50000, SweepIntervalMs}

----------------------------------------------------------------------------
(* The rate limiter *)

EmptyMap == [c \in {} |-> 0]

\* rateLimitMap.set(ip, t)
MapSet(map, ip, t) ==
    [c \in (DOMAIN map) \cup {ip} |-> IF c = ip THEN t ELSE map[c]]

\* !lastSolve, for lastSolve = rateLimitMap.get(ip): undefined and 0 are falsy
NotLastSolve(map, ip) == ip \notin DOMAIN map \/ map[ip] = 0

\* Math.floor in the place of Math.ceil
FloorSeconds(ms) == ms \div 1000

\* Math.ceil(ms / 1000)
CeilSeconds(ms) ==
    IF ms % 1000 = 0 THEN ms \div 1000 ELSE (ms \div 1000) + 1

\* Whether checkRateLimit(ip) allows, at clock value t
RateLimitAllows(map, ip, t) ==
    \/ NotLastSolve(map, ip)
    \/ ~(t - map[ip] < rateLimitMs)

\* The secondsRemaining the denial message reports
SecondsRemaining(map, ip, t) == CeilSeconds(rateLimitMs - (t - map[ip]))

\* The value checkRateLimit(ip) returns at clock value t
checkRateLimitResult(map, ip, t) ==
    IF RateLimitAllows(map, ip, t)
    THEN [allowed |-> TRUE, secondsRemaining |-> 0]
    ELSE [allowed |-> FALSE, secondsRemaining |-> SecondsRemaining(map, ip, t)]

\* A limiter that records a client's first call only
checkRateLimitMapFirstOnly(map, ip, t) ==
    IF ip \in DOMAIN map THEN map ELSE MapSet(map, ip, t)

\* A limiter that records the time of every call, denied or not
checkRateLimitMapEveryCall(map, ip, t) == MapSet(map, ip, t)

\* The map checkRateLimit(ip) leaves behind
checkRateLimitMap(map, ip, t) ==
    IF RateLimitAllows(map, ip, t) THEN MapSet(map, ip, t) ELSE map

\* The history kept of a call: who, when, the answer, the caller's latest
\* allowed call before it (-1: none), and whether a sweep had deleted the
\* caller's entry since, and whether the caller was denied since that
\* allowed call
CallRecord(ip, t, result, prev, swept, denied) ==
    [kind |-> "call", ip |-> ip, at |-> t, allowed |-> result.allowed,
     secondsRemaining |-> result.secondsRemaining, prev |-> prev,
     afterEviction |-> swept, deniedBefore |-> denied]

NoCall ==
    [kind |-> "none", ip |-> "", at |-> 0, allowed |-> FALSE,
     secondsRemaining |-> 0, prev |-> -1, afterEviction |-> FALSE,
     deniedBefore |-> FALSE]

\* The limiter's part of any step that calls checkRateLimit(ip)
LimiterCall(ip) ==
    LET result == checkRateLimitResult(rateLimitMap, ip, now) IN
    /\ rateLimitMap' = checkRateLimitMap(rateLimitMap, ip, now)
    /\ unsweptMap' = checkRateLimitMap(unsweptMap, ip, now)
    /\ lastCall' = CallRecord(ip, now, result, lastAllowedAt[ip],
                               ip \in evicted, ip \in deniedSince)
    /\ evicted' = evicted \ {ip}
    /\ lastAllowedAt' =
          IF result.allowed THEN [lastAllowedAt EXCEPT ![ip] = now]
          ELSE lastAllowedAt

\* A call of checkRateLimit(ip)
CheckRateLimit(ip) ==
    /\ LimiterCall(ip)
    /\ deniedSince' = IF checkRateLimitResult(rateLimitMap, ip, now).allowed
                      THEN deniedSince \ {ip}
                      ELSE deniedSince \cup {ip}
    /\ UNCHANGED <<now, ticks, nextSweepAt, activeMode, walletBalances,
                   req, appVars>>

\* A clean-up that deletes every entry, however young
SweepDeletesAll(map, ip, t) == TRUE

\* A clean-up that also deletes the entries exactly at the limit
SweepDeletesAtLimit(map, ip, t) == t - map[ip] >= rateLimitMs * KeepFactor

\* A clean-up with the comparison turned around: it deletes the young entries
SweepDeletesYoung(map, ip, t) == t - map[ip] < rateLimitMs * KeepFactor

\* Which entries the clean-up deletes at clock value t
SweepDeletes(map, ip, t) == t - map[ip] > rateLimitMs * KeepFactor

\* The map after the clean-up callback has run at clock value t
SweepMap(map, t) ==
    [c \in {d \in DOMAIN map : ~SweepDeletes(map, d, t)} |-> map[c]]

\* The setInterval callback: due once an hour, and re-armed when it runs
Sweep ==
    /\ now >= nextSweepAt
    /\ rateLimitMap' = SweepMap(rateLimitMap, now)
    /\ evicted' = evicted \cup ((DOMAIN rateLimitMap) \ (DOMAIN rateLimitMap'))
    /\ nextSweepAt' = now + SweepIntervalMs
    /\ lastCall' = NoCall
    /\ UNCHANGED <<now, ticks, lastAllowedAt, activeMode, walletBalances,
                   req, deniedSince, appVars,
                   unsweptMap>>

\* Time passes.  An answered request is only history: its slot is given up
\* (Recycle) before the clock moves on
Tick(d) ==
    /\ ticks < MaxTicks
    /\ \A r \in DOMAIN req : req[r].pc # "done"
    /\ now' = now + d
    /\ ticks' = ticks + 1
    /\ lastCall' = NoCall
    /\ UNCHANGED <<nextSweepAt, rateLimitMap, lastAllowedAt, evicted,
                   activeMode, walletBalances, req, deniedSince, appVars,
                   unsweptMap>>

----------------------------------------------------------------------------
(* JavaScript values of a request body.  A string is the sequence of its   *)
(* characters, a number the sequence of its digits.                        *)

Undefined == [type |-> "undefined", v |-> <<>>, items |-> <<>>]
Null == [type |-> "null", v |-> <<>>, items |-> <<>>]
Str(chars) == [type |-> "string", v |-> chars, items |-> <<>>]
Num(digits) == [type |-> "number", v |-> digits, items |-> <<>>]
Arr(xs) == [type |-> "array", v |-> <<>>, items |-> xs]

\* !x
Falsy(x) ==
    \/ x.type \in {"undefined", "null"}
    \/ x.type = "string" /\ x.v = <<>>
    \/ x.type = "number" /\ x.v = <<"0">>

\* Array.isArray(x)
IsArray(x) == x.type = "array"

\* a === b, for a string a
StrictEquals(a, b) == a.type = b.type /\ a.v = b.v

\* The characters JSON.stringify writes for the inside of a string
RECURSIVE EscapeString(_)
EscapeString(chars) ==
    IF chars = <<>> THEN <<>>
    ELSE (IF Head(chars) \in {"\"", "\\"} THEN <<"\\", Head(chars)>>
          ELSE <<Head(chars)>>) \o EscapeString(Tail(chars))

\* JSON.stringify of an array element
StringifyValue(x) ==
    CASE x.type = "string" -> <<"\"">> \o EscapeString(x.v) \o <<"\"">>
      [] x.type = "number" -> x.v
      [] OTHER -> <<"n", "u", "l", "l">>

RECURSIVE StringifyItems(_)
StringifyItems(xs) ==
    IF xs = <<>> THEN <<>>
    ELSE IF Len(xs) = 1 THEN StringifyValue(xs[1])
    ELSE StringifyValue(Head(xs)) \o <<",">> \o StringifyItems(Tail(xs))

\* JSON.stringify(xs), for an array xs
JSONstringify(xs) == <<"[">> \o StringifyItems(xs) \o <<"]">>

----------------------------------------------------------------------------
(* The puzzle dataset *)

e7e5 == Str(<<"e", "7", "e", "5">>)
Nf3 == Str(<<"N", "f", "3">>)
Nc6 == Str(<<"N", "c", "6">>)
Bb5 == Str(<<"B", "b", "5">>)
Nb5 == Str(<<"N", "b", "5">>)
d2d4 == Str(<<"d", "2", "d", "4">>)

\* easy_puzzles.json: records with id and solution (fen, rating and themes
\* play no part in solving)
puzzlesData ==
    << [id |-> Str(<<"0", "0", "s", "H", "x">>), solution |-> <<e7e5, Nf3, Nc6, Bb5>>],
       [id |-> Str(<<"0", "0", "s", "J", "9">>), solution |-> <<d2d4, Nc6>>],
       [id |-> Str(<<"0", "0", "s", "J", "b">>), solution |-> <<e7e5, Nf3, Nc6>>] >>

\* puzzlesData.find(p => p.id === puzzleId): the index found, 0 for undefined
FindPuzzle(puzzleId) ==
    LET hits == {i \in 1..Len(puzzlesData) : StrictEquals(puzzlesData[i].id, puzzleId)}
    IN IF hits = {} THEN 0 ELSE CHOOSE i \in hits : \A j \in hits : i <= j

\* A filter that keeps the even positions (the opponent's moves)
IsOpponentMoveIndex(index) == index % 2 = 0

\* Whether filter keeps the element at 0-based position index
IsUserMoveIndex(index) == index % 2 = 1

\* solution.filter((_, index) => index % 2 === 1), from position index on
RECURSIVE FilterFrom(_, _)
FilterFrom(solution, index) ==
    IF solution = <<>> THEN <<>>
    ELSE (IF IsUserMoveIndex(index) THEN <<Head(solution)>> ELSE <<>>)
         \o FilterFrom(Tail(solution), index + 1)

userMovesInSolution(puzzle) == FilterFrom(puzzle.solution, 0)

\* isCorrect, for a submitted array
isCorrect(moves, puzzle) ==
    JSONstringify(moves.items) = JSONstringify(userMovesInSolution(puzzle))

----------------------------------------------------------------------------
(* The POST /api/puzzle/solve handler.  A slot of req holds one request:   *)
(* its body, where the handler stands (pc), and the history of what the    *)
(* handler did for it: the checks it evaluated (path), what the limiter    *)
(* answered (rl, rlSeconds), the clock at arrival and the client's latest  *)
(* allowed attempt before it (arrivedAt, prevAllowedAt), the call that     *)
(* threw (threw), the wallet calls made and the balance read, and the      *)
(* responses sent.                                                         *)

Requests == {"r1"}

IdleRequest ==
    [pc |-> "idle", ip |-> "", puzzleId |-> Undefined, moves |-> Undefined,
     arrivedAt |-> 0, prevAllowedAt |-> -1, path |-> <<>>, rl |-> "notcalled", rlSeconds |-> 0, threw |-> "",
     getBalancesCalls |-> 0, balanceSeen |-> -1, sends |-> <<>>,
     responses |-> <<>>]

\* res.status(status).json({ error })
ErrorResponse(status, error, seconds) ==
    [status |-> status, fields |-> {"error"}, error |-> error,
     seconds |-> seconds, reward |-> 0, remainingBalance |-> 0]

\* res.json({ success: true, reward, token, qrCode, remainingBalance })
SuccessResponse(remaining) ==
    [status |-> 200,
     fields |-> {"success", "reward", "token", "qrCode", "remainingBalance"},
     error |-> "", seconds |-> 0, reward |-> puzzleReward,
     remainingBalance |-> remaining]

\* The handler answers and returns
Respond(q, response) ==
    [q EXCEPT !.pc = "done", !.responses = Append(@, response)]

\* The 429 answer: its message reports the seconds remaining
RateLimitedResponse(seconds) == ErrorResponse(429, "Slow down", seconds)

\* A handler without the catch block: the error escapes and nothing answers
Uncaught(q, call) == [q EXCEPT !.threw = call, !.pc = "done"]

\* The catch block: res.status(500).json({ error: err.message })
Catch(q, call) ==
    Respond([q EXCEPT !.threw = call], ErrorResponse(500, "err.message", 0))

\* balances[activeMint] || 0
BalanceOf(balances) ==
    IF activeMint \in DOMAIN balances /\ balances[activeMint] # 0
    THEN balances[activeMint] ELSE 0

\* A balance check that only refuses an empty pot
PotIsEmpty(balance) == balance <= 0

\* balance < config.puzzleReward
InsufficientFunds(balance) == balance < puzzleReward

\* A send that always pays from the test mint
SendFromTestMint == <<testMint, puzzleReward>>

\* The arguments of manager.wallet.send
SendArguments == <<activeMint, puzzleReward>>

\* A shape check that only looks at puzzleId
InvalidRequestOnlyPuzzleId(puzzleId, moves) == Falsy(puzzleId)

\* A shape check that forgets Array.isArray
InvalidRequestNoArrayCheck(puzzleId, moves) == Falsy(puzzleId) \/ Falsy(moves)

\* The request's body is malformed
InvalidRequest(puzzleId, moves) ==
    Falsy(puzzleId) \/ Falsy(moves) \/ ~IsArray(moves)

\* The handler from the arrival of a request to its first await or answer;
\* the slot q already holds the body
SolveSync(q, rl) ==
    IF InvalidRequest(q.puzzleId, q.moves)
    THEN Respond([q EXCEPT !.path = <<"shape">>],
                 ErrorResponse(400, "Invalid request", 0))
    ELSE IF ~rl.allowed
    THEN Respond([q EXCEPT !.path = <<"shape", "rateLimit">>,
                           !.rl = "denied",
                           !.rlSeconds = rl.secondsRemaining],
                 RateLimitedResponse(rl.secondsRemaining))
    ELSE IF FindPuzzle(q.puzzleId) = 0
    THEN Respond([q EXCEPT !.path = <<"shape", "rateLimit", "find">>,
                           !.rl = "allowed"],
                 ErrorResponse(400, "Puzzle not found", 0))
    ELSE IF ~isCorrect(q.moves, puzzlesData[FindPuzzle(q.puzzleId)])
    THEN Respond([q EXCEPT !.path = <<"shape", "rateLimit", "find", "validate">>,
                           !.rl = "allowed"],
                 ErrorResponse(400, "Incorrect solution", 0))
    ELSE [q EXCEPT !.path = <<"shape", "rateLimit", "find", "validate">>,
                   !.rl = "allowed",
                   !.pc = "getBalances",
                   !.getBalancesCalls = @ + 1]

\* A request arrives and the handler runs to its first await or answer
SolveArrive(r, ip, puzzleId, moves) ==
    /\ req[r].pc = "idle"
    /\ LET q == [req[r] EXCEPT !.ip = ip, !.puzzleId = puzzleId, !.moves = moves,
                               !.arrivedAt = now,
                               !.prevAllowedAt = lastAllowedAt[ip]]
       IN IF InvalidRequest(puzzleId, moves)
          THEN /\ req' = [req EXCEPT ![r] = SolveSync(q, [allowed |-> FALSE])]
               /\ lastCall' = NoCall
               /\ UNCHANGED <<rateLimitMap, lastAllowedAt, evicted, deniedSince,
                   unsweptMap>>
          ELSE /\ LimiterCall(ip)
               /\ UNCHANGED deniedSince
               /\ req' = [req EXCEPT ![r] =
                     SolveSync(q, checkRateLimitResult(rateLimitMap, ip, now))]
    /\ UNCHANGED <<now, ticks, nextSweepAt, activeMode, walletBalances,
                   appVars>>

\* The handler after the first getBalances resolved
AfterGetBalances(q, balance) ==
    IF InsufficientFunds(balance)
    THEN Respond([q EXCEPT !.path = Append(@, "balance"), !.balanceSeen = balance],
                 ErrorResponse(503, "Insufficient funds", 0))
    ELSE [q EXCEPT !.path = Append(@, "balance"), !.balanceSeen = balance,
                   !.pc = "send", !.sends = Append(@, SendArguments)]

\* await manager.wallet.getBalances() resolves
GetBalancesResolves(r) ==
    /\ req[r].pc = "getBalances"
    /\ req' = [req EXCEPT ![r] = AfterGetBalances(@, BalanceOf(walletBalances))]
    /\ lastCall' = NoCall
    /\ UNCHANGED <<now, ticks, nextSweepAt, rateLimitMap, lastAllowedAt,
                   evicted, activeMode, walletBalances, deniedSince,
                   appVars,
                   unsweptMap>>

\* An awaited call rejects, or a call throws: the catch block answers
CallThrows(r, call) ==
    /\ req[r].pc = call
    /\ req' = [req EXCEPT ![r] = Catch(@, call)]
    /\ lastCall' = NoCall
    /\ UNCHANGED <<now, ticks, nextSweepAt, rateLimitMap, lastAllowedAt,
                   evicted, activeMode, walletBalances, deniedSince,
                   appVars,
                   unsweptMap>>

\* The wallet after a send of amount from mint
WalletAfterSend(balances, mint, amount) ==
    [balances EXCEPT ![mint] = @ - amount]

\* Whether the wallet can pay amount from mint
WalletCanSend(balances, mint, amount) ==
    mint \in DOMAIN balances /\ balances[mint] >= amount

\* await manager.wallet.send(activeMint, reward) resolves; getEncodedToken
\* then returns (encoded) or throws
SendResolves(r, encoded) ==
    /\ req[r].pc = "send"
    /\ LET sent == req[r].sends[Len(req[r].sends)] IN
       /\ WalletCanSend(walletBalances, sent[1], sent[2])
       /\ walletBalances' = WalletAfterSend(walletBalances, sent[1], sent[2])
    /\ req' = [req EXCEPT ![r] =
          IF encoded THEN [@ EXCEPT !.pc = "toDataURL"]
          ELSE Catch(@, "getEncodedToken")]
    /\ lastCall' = NoCall
    /\ UNCHANGED <<now, ticks, nextSweepAt, rateLimitMap, lastAllowedAt,
                   evicted, activeMode, deniedSince, appVars,
                   unsweptMap>>

\* await QRCode.toDataURL(tokenString) resolves
ToDataURLResolves(r) ==
    /\ req[r].pc = "toDataURL"
    /\ req' = [req EXCEPT ![r] =
          [@ EXCEPT !.pc = "getBalances2", !.getBalancesCalls = @ + 1]]
    /\ lastCall' = NoCall
    /\ UNCHANGED <<now, ticks, nextSweepAt, rateLimitMap, lastAllowedAt,
                   evicted, activeMode, walletBalances, deniedSince,
                   appVars,
                   unsweptMap>>

\* The second await manager.wallet.getBalances() resolves: the 200 answer
NewBalanceResolves(r) ==
    /\ req[r].pc = "getBalances2"
    /\ req' = [req EXCEPT ![r] =
          Respond(@, SuccessResponse(BalanceOf(walletBalances)))]
    /\ lastCall' = NoCall
    /\ UNCHANGED <<now, ticks, nextSweepAt, rateLimitMap, lastAllowedAt,
                   evicted, activeMode, walletBalances, deniedSince,
                   appVars,
                   unsweptMap>>

\* The answered request is over; its slot takes the next request
Recycle(r) ==
    /\ req[r].pc = "done"
    /\ req' = [req EXCEPT ![r] = IdleRequest]
    /\ lastCall' = NoCall
    /\ UNCHANGED <<now, ticks, nextSweepAt, rateLimitMap, lastAllowedAt,
                   evicted, activeMode, walletBalances, deniedSince,
                   appVars,
                   unsweptMap>>

\* The calls of the handler that may throw or reject
ThrowingCalls == {"getBalances", "send", "toDataURL", "getBalances2"}

\* The bodies requests arrive with
PuzzleIdInputs ==
    {Undefined, Str(<<>>), Str(<<"n", "o">>), puzzlesData[1].id, puzzlesData[3].id}

MovesInputs ==
    {Undefined, Nf3, Arr(<<>>),
     Arr(<<Nf3, Bb5>>), Arr(<<Nf3, Nb5>>), Arr(<<Nf3>>),
     Arr(<<Bb5, Nf3>>), Arr(<<Nf3, Bb5, Nc6>>),
     Arr(<<Str(<<"N", "f", "3", "\"", ",", "\"", "B", "b", "5">>)>>)}

InitialBalances == {5, 10}
SolveTickSteps == {1, 3000}

----------------------------------------------------------------------------
(* The start of the process: the dataset is loaded when the module loads,  *)
(* then start() awaits initWallet() and listens.                           *)

\* The steps of the start, in order
BootSteps == <<"load", "reposInit", "newManager", "addTestMint",
               "addMainMint", "listen">>

\* The step after a step
BootStepAfter(step) ==
    LET i == CHOOSE j \in 1..Len(BootSteps) : BootSteps[j] = step
    IN IF i = Len(BootSteps) THEN "serving" ELSE BootSteps[i + 1]

\* The steps whose error a try/catch of initWallet catches and logs
ErrorIsCaught(step) == step \in {"addTestMint", "addMainMint"}

\* The process before its first step
Booting == [pc |-> "load", failures |-> {}, listening |-> FALSE, exited |-> FALSE]

\* The process once it serves requests, nothing having failed
Serving == [pc |-> "serving", failures |-> {}, listening |-> TRUE, exited |-> FALSE]

\* The process after the step it stands at succeeded (ok) or threw
BootAfter(b, ok) ==
    IF ok
    THEN [b EXCEPT !.pc = BootStepAfter(b.pc),
                   !.listening = (b.pc = "listen")]
    ELSE IF ErrorIsCaught(b.pc)
    THEN [b EXCEPT !.pc = BootStepAfter(b.pc), !.failures = @ \cup {b.pc}]
    ELSE [b EXCEPT !.pc = "exited", !.failures = @ \cup {b.pc},
                   !.exited = TRUE]

\* The datasets easy_puzzles.json may hold
Datasets == {<<>>, <<puzzlesData[2]>>, puzzlesData}

\* One step of the start: it succeeds or throws; loading sets the dataset
BootStep(ok, data) ==
    /\ boot.pc \notin {"serving", "exited"}
    /\ boot' = BootAfter(boot, ok)
    /\ dataset' = IF boot.pc = "load" /\ ok THEN data ELSE dataset
    /\ UNCHANGED <<now, ticks, nextSweepAt, rateLimitMap, lastCall,
                   lastAllowedAt, evicted, deniedSince, activeMode,
                   walletBalances, req, api, quotes,
                   unsweptMap>>

----------------------------------------------------------------------------
(* Numbers of a request body: ToNumber, in tenths (NaN apart) *)

Digits == <<"0", "1", "2", "3", "4", "5", "6", "7", "8", "9">>
IsDigit(c) == \E d \in 1..10 : Digits[d] = c
DigitValue(c) == (CHOOSE d \in 1..10 : Digits[d] = c) - 1

RECURSIVE DigitsValue(_)
DigitsValue(chars) ==
    IF chars = <<>> THEN 0
    ELSE DigitsValue(SubSeq(chars, 1, Len(chars) - 1)) * 10
            + DigitValue(chars[Len(chars)])

AllDigits(chars) == chars # <<>> /\ \A i \in 1..Len(chars) : IsDigit(chars[i])

NaN == [nan |-> TRUE, tenths |-> 0]
Tenths(n) == [nan |-> FALSE, tenths |-> n]

\* The number a decimal literal without sign denotes
ParseUnsigned(chars) ==
    IF AllDigits(chars) THEN Tenths(10 * DigitsValue(chars))
    ELSE IF /\ Len(chars) >= 3
            /\ chars[Len(chars) - 1] = "."
            /\ AllDigits(SubSeq(chars, 1, Len(chars) - 2))
            /\ IsDigit(chars[Len(chars)])
    THEN Tenths(10 * DigitsValue(SubSeq(chars, 1, Len(chars) - 2))
                    + DigitValue(chars[Len(chars)]))
    ELSE NaN

\* ToNumber(x), for the values the model sends
ToNumber(x) ==
    IF x.type = "null" THEN Tenths(0)
    ELSE IF x.type \notin {"number", "string"} THEN NaN
    ELSE IF x.v = <<>> THEN Tenths(0)
    ELSE IF Head(x.v) = "-"
    THEN LET n == ParseUnsigned(Tail(x.v))
         IN IF n.nan THEN NaN ELSE Tenths(0 - n.tenths)
    ELSE ParseUnsigned(x.v)

\* x < 1 (false when x is NaN)
LessThanOne(x) == ~ToNumber(x).nan /\ ToNumber(x).tenths < 10

\* x as a whole number of sats, for the amounts the mint accepts
WholeSats(x) == ToNumber(x).tenths \div 10

----------------------------------------------------------------------------
(* The other endpoints: GET /api/puzzle, POST /api/donate and              *)
(* GET /api/donate/check/:quoteId.  api holds one request: its endpoint     *)
(* and input, where the handler stands (pc), the wallet calls it made, the *)
(* call that threw, and the responses sent.                                *)

IdleApi ==
    [endpoint |-> "", pc |-> "idle", amount |-> Undefined, quoteId |-> 0,
     calls |-> <<>>, redeemed |-> FALSE, threw |-> "", responses |-> <<>>]

NoQuotes == <<>>

\* A wallet call of a handler: its name and arguments
WalletCall(name, mint, amount, quoteId) ==
    [name |-> name, mint |-> mint, amount |-> amount, quoteId |-> quoteId]

\* A response: status, the fields of the JSON body, and the values of the
\* fields paid (check) and id (puzzle: the position in the dataset)
ApiResponse(status, fields, paid, puzzle) ==
    [status |-> status, fields |-> fields, paid |-> paid, puzzle |-> puzzle]

\* The handler answers and returns
ApiRespond(a, response) ==
    [a EXCEPT !.pc = "done", !.responses = Append(@, response)]

RandomSteps == 4

\* Math.floor(Math.random() * n), for Math.random() = k / RandomSteps
RandomIndex(k, n) == (k * n) \div RandomSteps

\* What GET /api/puzzle answers for the 0-based index: reading a field of
\* the undefined puzzle throws, and the catch answers 500
PuzzleAnswer(data, index) ==
    IF index + 1 \in 1..Len(data)
    THEN ApiResponse(200, {"id", "fen", "rating", "solution", "themes"},
                     "", index + 1)
    ELSE ApiResponse(500, {"error"}, "", 0)

\* GET /api/puzzle
PuzzleRequest(k) ==
    /\ boot.listening
    /\ api.pc = "idle"
    /\ api' = ApiRespond([api EXCEPT !.endpoint = "puzzle"],
                         PuzzleAnswer(dataset, RandomIndex(k, Len(dataset))))
    /\ UNCHANGED <<now, ticks, nextSweepAt, rateLimitMap, lastCall,
                   lastAllowedAt, evicted, deniedSince, activeMode,
                   walletBalances, req, boot, dataset, quotes,
                   unsweptMap>>

\* !amount || amount < 1
AmountIsInvalid(amount) == Falsy(amount) \/ LessThanOne(amount)

MaxQuotes == 2

\* POST /api/donate, to its first await or answer
DonateArrive(amount) ==
    /\ boot.listening
    /\ api.pc = "idle"
    /\ Len(quotes) < MaxQuotes
    /\ LET a == [api EXCEPT !.endpoint = "donate", !.amount = amount] IN
       api' = IF AmountIsInvalid(amount)
              THEN ApiRespond(a, ApiResponse(400, {"error"}, "", 0))
              ELSE [a EXCEPT !.pc = "createMintQuote",
                             !.calls = Append(@, WalletCall("createMintQuote",
                                                   activeMint, amount, 0))]
    /\ UNCHANGED <<now, ticks, nextSweepAt, rateLimitMap, lastCall,
                   lastAllowedAt, evicted, deniedSince, activeMode,
                   walletBalances, req, boot, dataset, quotes,
                   unsweptMap>>

\* The mint quotes an amount only if it is a whole number of sats
MintAccepts(amount) ==
    /\ ~ToNumber(amount).nan
    /\ ToNumber(amount).tenths % 10 = 0
    /\ ToNumber(amount).tenths >= 10

\* await manager.quotes.createMintQuote(activeMint, amount) resolves
CreateMintQuoteResolves ==
    /\ api.pc = "createMintQuote"
    /\ MintAccepts(api.amount)
    /\ quotes' = Append(quotes, [mint |-> activeMint,
                                 amount |-> WholeSats(api.amount),
                                 state |-> "unpaid"])
    /\ api' = [api EXCEPT !.pc = "toDataURL", !.quoteId = Len(quotes) + 1]
    /\ UNCHANGED <<now, ticks, nextSweepAt, rateLimitMap, lastCall,
                   lastAllowedAt, evicted, deniedSince, activeMode,
                   walletBalances, req, boot, dataset,
                   unsweptMap>>

\* await QRCode.toDataURL(quote.request) resolves: the 200 answer
DonateQRResolves ==
    /\ api.endpoint = "donate"
    /\ api.pc = "toDataURL"
    /\ api' = ApiRespond(api, ApiResponse(200,
                 {"quoteId", "amount", "paymentRequest", "qrCode", "mint"},
                 "", 0))
    /\ UNCHANGED <<now, ticks, nextSweepAt, rateLimitMap, lastCall,
                   lastAllowedAt, evicted, deniedSince, activeMode,
                   walletBalances, req, boot, dataset, quotes,
                   unsweptMap>>

\* The donor pays the invoice of a quote
PayQuote(id) ==
    /\ id \in 1..Len(quotes)
    /\ quotes[id].state = "unpaid"
    /\ quotes' = [quotes EXCEPT ![id].state = "paid"]
    /\ UNCHANGED <<now, ticks, nextSweepAt, rateLimitMap, lastCall,
                   lastAllowedAt, evicted, deniedSince, activeMode,
                   walletBalances, req, boot, dataset, api,
                   unsweptMap>>

\* GET /api/donate/check/:quoteId, to its first await
CheckArrive(id) ==
    /\ boot.listening
    /\ api.pc = "idle"
    /\ api' = [api EXCEPT !.endpoint = "check", !.quoteId = id,
                          !.pc = "redeemMintQuote",
                          !.calls = Append(@, WalletCall("redeemMintQuote",
                                                activeMint, Undefined, id))]
    /\ UNCHANGED <<now, ticks, nextSweepAt, rateLimitMap, lastCall,
                   lastAllowedAt, evicted, deniedSince, activeMode,
                   walletBalances, req, boot, dataset, quotes,
                   unsweptMap>>

\* The wallet after the redemption of amount sats on mint
WalletAfterRedeem(balances, mint, amount) ==
    [m \in (DOMAIN balances) \cup {mint} |->
        IF m = mint
        THEN (IF m \in DOMAIN balances THEN balances[m] ELSE 0) + amount
        ELSE balances[m]]

\* await manager.quotes.redeemMintQuote(activeMint, quoteId) resolves: the
\* quote was paid; the handler goes on to getBalances
RedeemResolves ==
    /\ api.pc = "redeemMintQuote"
    /\ api.quoteId \in 1..Len(quotes)
    /\ quotes[api.quoteId].state = "paid"
    /\ quotes[api.quoteId].mint = activeMint
    /\ quotes' = [quotes EXCEPT ![api.quoteId].state = "redeemed"]
    /\ walletBalances' = WalletAfterRedeem(walletBalances, activeMint,
                                           quotes[api.quoteId].amount)
    /\ api' = [api EXCEPT !.redeemed = TRUE, !.pc = "getBalances",
                          !.calls = Append(@, WalletCall("getBalances",
                                                "", Undefined, 0))]
    /\ UNCHANGED <<now, ticks, nextSweepAt, rateLimitMap, lastCall,
                   lastAllowedAt, evicted, deniedSince, activeMode,
                   req, boot, dataset,
                   unsweptMap>>

\* await manager.wallet.getBalances() resolves: { paid: true, balance }
CheckBalancesResolves ==
    /\ api.endpoint = "check"
    /\ api.pc = "getBalances"
    /\ api' = ApiRespond(api, ApiResponse(200, {"paid", "balance"}, "true", 0))
    /\ UNCHANGED <<now, ticks, nextSweepAt, rateLimitMap, lastCall,
                   lastAllowedAt, evicted, deniedSince, activeMode,
                   walletBalances, req, boot, dataset, quotes,
                   unsweptMap>>

\* What the catch block of an endpoint answers
ApiCatchResponse(endpoint) ==
    IF endpoint = "check"
    THEN ApiResponse(200, {"paid", "error"}, "false", 0)
    ELSE ApiResponse(500, {"error"}, "", 0)

\* The awaited calls of the donate and check handlers
ApiThrowingCalls ==
    {"createMintQuote", "toDataURL", "redeemMintQuote", "getBalances"}

\* An awaited call of a donate or check handler rejects: the catch answers
ApiCallThrows(call) ==
    /\ api.pc = call
    /\ call \in ApiThrowingCalls
    /\ api' = ApiRespond([api EXCEPT !.threw = call],
                         ApiCatchResponse(api.endpoint))
    /\ UNCHANGED <<now, ticks, nextSweepAt, rateLimitMap, lastCall,
                   lastAllowedAt, evicted, deniedSince, activeMode,
                   walletBalances, req, boot, dataset, quotes,
                   unsweptMap>>

\* The answered request is over; the next may arrive
ApiRecycle ==
    /\ api.pc = "done"
    /\ api' = IdleApi
    /\ UNCHANGED <<now, ticks, nextSweepAt, rateLimitMap, lastCall,
                   lastAllowedAt, evicted, deniedSince, activeMode,
                   walletBalances, req, boot, dataset, quotes,
                   unsweptMap>>

\* The amounts donate requests arrive with
AmountInputs ==
    {Undefined, Num(<<"0">>), Num(<<"-", "1">>), Num(<<"5">>),
     Num(<<"1", ".", "5">>), Str(<<"a", "b", "c">>)}

----------------------------------------------------------------------------
(* The limiter on its own: calls, the clock and the hourly clean-up *)

Init ==
    /\ now \in StartTimes
    /\ ticks = 0
    /\ nextSweepAt = now + SweepIntervalMs
    /\ rateLimitMap = EmptyMap
    /\ lastCall = NoCall
    /\ lastAllowedAt = [c \in Clients |-> -1]
    /\ evicted = {}
    /\ deniedSince = {}
    /\ unsweptMap = EmptyMap
    /\ activeMode = "test"
    /\ walletBalances = [m \in {} |-> 0]
    /\ req = [r \in Requests |-> IdleRequest]
    /\ boot = Serving
    /\ dataset = puzzlesData
    /\ api = IdleApi
    /\ quotes = NoQuotes

Next ==
    \/ \E d \in TickSteps : Tick(d)
    \/ \E ip \in Clients : CheckRateLimit(ip)
    \/ Sweep

Spec == Init /\ [][Next]_vars

----------------------------------------------------------------------------
(* The solve endpoint: requests, the clock, and the wallet's answers *)

InitSolve ==
    /\ now \in StartTimes
    /\ ticks = 0
    /\ nextSweepAt = now + SweepIntervalMs
    /\ rateLimitMap = EmptyMap
    /\ lastCall = NoCall
    /\ lastAllowedAt = [c \in Clients |-> -1]
    /\ evicted = {}
    /\ deniedSince = {}
    /\ unsweptMap = EmptyMap
    /\ activeMode \in {"test", "main"}
    /\ \/ walletBalances = [m \in {} |-> 0]
       \/ \E b \in InitialBalances : walletBalances = [m \in Mints |-> b]
    /\ req = [r \in Requests |-> IdleRequest]
    /\ boot = Serving
    /\ dataset = puzzlesData
    /\ api = IdleApi
    /\ quotes = NoQuotes

NextSolve ==
    \/ \E d \in SolveTickSteps : Tick(d)
    \/ \E r \in Requests, ip \in Clients, puzzleId \in PuzzleIdInputs,
          moves \in MovesInputs : SolveArrive(r, ip, puzzleId, moves)
    \/ \E r \in Requests : GetBalancesResolves(r)
    \/ \E r \in Requests, call \in ThrowingCalls : CallThrows(r, call)
    \/ \E r \in Requests, encoded \in BOOLEAN : SendResolves(r, encoded)
    \/ \E r \in Requests : ToDataURLResolves(r)
    \/ \E r \in Requests : NewBalanceResolves(r)
    \/ \E r \in Requests : Recycle(r)

SpecSolve == InitSolve /\ [][NextSolve]_vars

----------------------------------------------------------------------------
(* Solve requests in flight together.  A handler suspends at each await,   *)
(* and the other handlers run meanwhile; getBalances reads the wallet at   *)
(* some moment between its call and the handler's continuation.            *)

ConcRequests == {"r1", "r2"}

\* manager.wallet.getBalances() reads the wallet's balances
GetBalancesReads(r) ==
    /\ req[r].pc = "getBalances"
    /\ req' = [req EXCEPT ![r] =
          [@ EXCEPT !.balanceSeen = BalanceOf(walletBalances),
                    !.pc = "getBalancesRead"]]
    /\ lastCall' = NoCall
    /\ UNCHANGED <<now, ticks, nextSweepAt, rateLimitMap, lastAllowedAt,
                   evicted, activeMode, walletBalances, deniedSince,
                   appVars,
                   unsweptMap>>

\* The handler continues after await manager.wallet.getBalances(), with the
\* balances that were read
GetBalancesContinues(r) ==
    /\ req[r].pc = "getBalancesRead"
    /\ req' = [req EXCEPT ![r] = AfterGetBalances(@, @.balanceSeen)]
    /\ lastCall' = NoCall
    /\ UNCHANGED <<now, ticks, nextSweepAt, rateLimitMap, lastAllowedAt,
                   evicted, activeMode, walletBalances, deniedSince,
                   appVars,
                   unsweptMap>>

\* The bodies and the clock steps of the requests in flight together
ConcMovesInputs == {Arr(<<Nf3, Bb5>>), Arr(<<Nf3, Nb5>>)}
ConcTickSteps == {5000}
ConcThrowingCalls == {"send"}
ConcBalances == {10}
MaxConcTicks == 1

\* Time passes while requests are in flight together
ConcTick(d) == ticks < MaxConcTicks /\ Tick(d)

InitConc ==
    /\ now \in StartTimes
    /\ ticks = 0
    /\ nextSweepAt = now + SweepIntervalMs
    /\ rateLimitMap = EmptyMap
    /\ lastCall = NoCall
    /\ lastAllowedAt = [c \in Clients |-> -1]
    /\ evicted = {}
    /\ deniedSince = {}
    /\ unsweptMap = EmptyMap
    /\ activeMode = "test"
    /\ \E b \in ConcBalances : walletBalances = [m \in Mints |-> b]
    /\ req = [r \in ConcRequests |-> IdleRequest]
    /\ boot = Serving
    /\ dataset = puzzlesData
    /\ api = IdleApi
    /\ quotes = NoQuotes

NextConc ==
    \/ \E r \in ConcRequests, ip \in Clients, moves \in ConcMovesInputs :
          SolveArrive(r, ip, puzzlesData[1].id, moves)
    \/ \E r \in ConcRequests : GetBalancesReads(r)
    \/ \E r \in ConcRequests : GetBalancesContinues(r)
    \/ \E r \in ConcRequests, call \in ConcThrowingCalls : CallThrows(r, call)
    \/ \E r \in ConcRequests : SendResolves(r, TRUE)
    \/ \E r \in ConcRequests : ToDataURLResolves(r)
    \/ \E r \in ConcRequests : NewBalanceResolves(r)
    \/ \E r \in ConcRequests : Recycle(r)
    \/ \E d \in ConcTickSteps : ConcTick(d)

SpecConc == InitConc /\ [][NextConc]_vars

----------------------------------------------------------------------------
(* The start of the process and the puzzle and donation endpoints *)

InitApp ==
    /\ now \in StartTimes
    /\ ticks = 0
    /\ nextSweepAt = now + SweepIntervalMs
    /\ rateLimitMap = EmptyMap
    /\ lastCall = NoCall
    /\ lastAllowedAt = [c \in Clients |-> -1]
    /\ evicted = {}
    /\ deniedSince = {}
    /\ unsweptMap = EmptyMap
    /\ activeMode \in {"test", "main"}
    /\ walletBalances = [m \in {} |-> 0]
    /\ req = [r \in Requests |-> IdleRequest]
    /\ boot = Booting
    /\ dataset = <<>>
    /\ api = IdleApi
    /\ quotes = NoQuotes

NextApp ==
    \/ \E ok \in BOOLEAN, data \in Datasets : BootStep(ok, data)
    \/ \E k \in 0..(RandomSteps - 1) : PuzzleRequest(k)
    \/ \E amount \in AmountInputs : DonateArrive(amount)
    \/ CreateMintQuoteResolves
    \/ DonateQRResolves
    \/ \E id \in 1..MaxQuotes : PayQuote(id)
    \/ \E id \in 1..MaxQuotes : CheckArrive(id)
    \/ RedeemResolves
    \/ CheckBalancesResolves
    \/ \E call \in ApiThrowingCalls : ApiCallThrows(call)
    \/ ApiRecycle

SpecApp == InitApp /\ [][NextApp]_vars

----------------------------------------------------------------------------
(* Claims about the solve endpoint, checked under SpecSolve *)

\* The elements of a solution at the odd 0-based positions, in order
OddIndexSubsequence(solution) ==
    [k \in 1..(Len(solution) \div 2) |-> solution[2 * k]]

\* Same length, same elements, same order
ExactlyEqual(moves, expected) ==
    /\ moves.type = "array"
    /\ Len(moves.items) = Len(expected)
    /\ \A k \in 1..Len(expected) : moves.items[k] = expected[k]

\* The puzzles of the dataset with the id a request names
PuzzlesNamed(q) ==
    {i \in 1..Len(puzzlesData) :
        q.puzzleId.type = "string" /\ puzzlesData[i].id.v = q.puzzleId.v}

\* The request's moves are the expected user sequence of the puzzle it names
SolvesNamedPuzzle(q) ==
    \E i \in PuzzlesNamed(q) :
        ExactlyEqual(q.moves, OddIndexSubsequence(puzzlesData[i].solution))

\* A body field that is absent or empty
Missing(x) == x \in {Undefined, Null, Str(<<>>), Num(<<"0">>)}

\* Missing puzzleId, missing moves, or moves not an array
Malformed(q) ==
    Missing(q.puzzleId) \/ Missing(q.moves) \/ q.moves.type # "array"

Answered(q) == q.pc = "done"
StatusOf(q) == q.responses[1].status
ErrorOf(q) == q.responses[1].error

\* C3: the handler judges a submitted sequence correct if and only if it is
\* exactly equal to the named puzzle's solution at the odd 0-based positions.
C3_CorrectIffExpected ==
    \A r \in Requests :
        (Len(req[r].path) >= 4 /\ req[r].path[4] = "validate") =>
            LET judgedCorrect ==
                    ~\E i \in 1..Len(req[r].responses) :
                        req[r].responses[i].error = "Incorrect solution"
            IN judgedCorrect <=> SolvesNamedPuzzle(req[r])

\* C3's case: the solution e7e5 Nf3 Nc6 Bb5 and the submission Nf3 Bb5,
\* judged correct
C3_Witness ==
    \E r \in Requests :
        /\ req[r].puzzleId = puzzlesData[1].id
        /\ req[r].moves = Arr(<<Nf3, Bb5>>)
        /\ req[r].pc = "getBalances"

\* C4: a request whose balance read is below the reward ends with 503, never
\* invokes send, returns no token, and leaves the wallet's balances as they
\* were (no step of a request that has not invoked send changes them).
C4_InsufficientFunds ==
    /\ [](\A r \in Requests :
            (req[r].balanceSeen # -1 /\ req[r].balanceSeen < puzzleReward) =>
                /\ Answered(req[r])
                /\ Len(req[r].responses) = 1
                /\ StatusOf(req[r]) = 503
                /\ "token" \notin req[r].responses[1].fields
                /\ req[r].sends = <<>>)
    /\ [][\A r \in Requests :
            (req'[r] # req[r] /\ req'[r].pc # "idle" /\ req'[r].sends = <<>>)
                => walletBalances' = walletBalances]_vars

\* C4's case: a correct solution, a pot of 5 and a reward of 10
C4_Witness ==
    \E r \in Requests :
        /\ SolvesNamedPuzzle(req[r])
        /\ req[r].balanceSeen = 5
        /\ StatusOf(req[r]) = 503

\* C5: a well-formed attempt that passes the limiter records the clock at
\* check time, whatever follows; a further well-formed attempt of the same
\* client within the cooldown window is answered 429.
C5_EveryAttemptCounts ==
    \A r \in Requests :
        (req[r].pc # "idle" /\ ~Malformed(req[r])) =>
            /\ (req[r].rl = "allowed" /\ lastCall.kind = "call") =>
                  rateLimitMap[req[r].ip] = req[r].arrivedAt
            /\ (/\ req[r].prevAllowedAt # -1
                /\ req[r].arrivedAt - req[r].prevAllowedAt < rateLimitSeconds * 1000)
                  => (Answered(req[r]) /\ StatusOf(req[r]) = 429)

\* The smallest whole number of seconds that covers ms milliseconds
SecondsCovering(ms) ==
    CHOOSE n \in 0..(rateLimitSeconds + 1) :
        n * 1000 >= ms /\ (n - 1) * 1000 < ms

\* C6 as stated: a denied solve request is answered 429 with a body that
\* carries an error field and an integer field retryAfterSeconds equal to
\* ceil((cooldown - elapsed) / 1000).
C6_RetryAfterField ==
    \A r \in Requests :
        req[r].rl = "denied" =>
            /\ Answered(req[r])
            /\ StatusOf(req[r]) = 429
            /\ {"error", "retryAfterSeconds"} \subseteq req[r].responses[1].fields

\* C6 as amended: a denied solve request is answered 429 with a body whose
\* only field is error; the error message reports
\* ceil((cooldown - elapsed) / 1000) seconds.
C6_RetrySecondsInMessage ==
    \A r \in Requests :
        req[r].rl = "denied" =>
            /\ Answered(req[r])
            /\ Len(req[r].responses) = 1
            /\ StatusOf(req[r]) = 429
            /\ req[r].responses[1].fields = {"error"}
            /\ req[r].responses[1].seconds =
                  SecondsCovering(rateLimitSeconds * 1000
                        - (req[r].arrivedAt - req[r].prevAllowedAt))

\* C6's case: a denial 1 ms after the allowed attempt, reporting 5 seconds
C6_Witness ==
    \E r \in Requests :
        /\ req[r].rl = "denied"
        /\ req[r].arrivedAt - req[r].prevAllowedAt = 1
        /\ req[r].responses[1].seconds = 5

\* C7: send is invoked for a request only if it was well-formed, passed the
\* limiter, named a puzzle of the dataset, submitted that puzzle's expected
\* user sequence and observed a balance of at least the reward; at most once
\* per request, and for the fixed reward on the active mint.
C7_SendOnlyWhenEarned ==
    \A r \in Requests :
        /\ Len(req[r].sends) <= 1
        /\ req[r].sends # <<>> =>
              /\ ~Malformed(req[r])
              /\ req[r].rl = "allowed"
              /\ PuzzlesNamed(req[r]) # {}
              /\ SolvesNamedPuzzle(req[r])
              /\ req[r].balanceSeen >= 10
              /\ req[r].sends[1] =
                    <<IF activeMode = "main" THEN mainMint ELSE testMint, 10>>

\* C7's case: send was invoked, in main mode
C7_Witness ==
    \E r \in Requests :
        /\ req[r].sends # <<>>
        /\ activeMode = "main"
        /\ req[r].pc = "send"

\* C8: a request is answered at most once, and exactly once when its handler
\* has finished; a call that throws gives the answer 500 with an error body
\* in the same step; a handler that has not answered waits for a call whose
\* failure would answer it.
C8_ExactlyOneResponse ==
    \A r \in Requests :
        /\ Len(req[r].responses) <= 1
        /\ Answered(req[r]) <=> Len(req[r].responses) = 1
        /\ req[r].threw # "" =>
              /\ Answered(req[r])
              /\ StatusOf(req[r]) = 500
              /\ req[r].responses[1].fields = {"error"}
        /\ (req[r].pc # "idle" /\ ~Answered(req[r])) =>
              /\ req[r].pc \in ThrowingCalls
              /\ ENABLED CallThrows(r, req[r].pc)

\* C8's case: the last call of the handler, the second getBalances, threw
C8_Witness ==
    \E r \in Requests :
        /\ req[r].threw = "getBalances2"
        /\ StatusOf(req[r]) = 500

\* The first five checks of the handler, in order, on an answered request
FirstFailingCheck(q) ==
    IF Malformed(q) THEN "shape"
    ELSE IF q.rl = "denied" THEN "rateLimit"
    ELSE IF PuzzlesNamed(q) = {} THEN "find"
    ELSE IF ~SolvesNamedPuzzle(q) THEN "validate"
    ELSE IF q.balanceSeen # -1 /\ q.balanceSeen < 10 THEN "balance"
    ELSE "none"

\* What the first failing check decides, and that nothing later was evaluated
DecidedBy(q, check) ==
    CASE check = "shape" ->
            /\ StatusOf(q) = 400 /\ ErrorOf(q) = "Invalid request"
            /\ q.path = <<"shape">> /\ q.rl = "notcalled"
            /\ q.getBalancesCalls = 0 /\ q.sends = <<>>
      [] check = "rateLimit" ->
            /\ StatusOf(q) = 429
            /\ q.path = <<"shape", "rateLimit">>
            /\ q.getBalancesCalls = 0 /\ q.sends = <<>>
      [] check = "find" ->
            /\ StatusOf(q) = 400 /\ ErrorOf(q) = "Puzzle not found"
            /\ q.path = <<"shape", "rateLimit", "find">> /\ q.rl = "allowed"
            /\ q.getBalancesCalls = 0 /\ q.sends = <<>>
      [] check = "validate" ->
            /\ StatusOf(q) = 400 /\ ErrorOf(q) = "Incorrect solution"
            /\ q.path = <<"shape", "rateLimit", "find", "validate">>
            /\ q.rl = "allowed"
            /\ q.getBalancesCalls = 0 /\ q.sends = <<>>
      [] check = "balance" ->
            /\ StatusOf(q) = 503
            /\ q.path = <<"shape", "rateLimit", "find", "validate", "balance">>
            /\ q.rl = "allowed"
            /\ q.sends = <<>>
      [] OTHER ->
            /\ StatusOf(q) = 200
            /\ "success" \in q.responses[1].fields
            /\ q.rl = "allowed"

\* C9 as stated: the first failing check, in the order shape, rate limit,
\* puzzle lookup, solution, balance, decides the answer; otherwise the answer
\* is 200 with success: true.
C9_FirstFailingCheckDecides ==
    \A r \in Requests :
        Answered(req[r]) => DecidedBy(req[r], FirstFailingCheck(req[r]))

\* C9 as amended: the same, unless a wallet or encoder call threw, in which
\* case the answer is 500 (and only a request that passed the first four
\* checks makes such a call).
C9_FirstFailingCheckOrThrow ==
    \A r \in Requests :
        Answered(req[r]) =>
            IF req[r].threw = ""
            THEN DecidedBy(req[r], FirstFailingCheck(req[r]))
            ELSE /\ StatusOf(req[r]) = 500
                 /\ FirstFailingCheck(req[r]) = "none"

\* C9's case: a denied request that also names no puzzle and has wrong
\* moves is answered 429
C9_Witness ==
    \E r \in Requests :
        /\ Answered(req[r])
        /\ req[r].rl = "denied"
        /\ PuzzlesNamed(req[r]) = {}
        /\ StatusOf(req[r]) = 429

----------------------------------------------------------------------------
(* Claims about the limiter, checked under Spec *)

\* C1: after an allowed call at t1, a call of the same client at t2 with
\* t1 <= t2 < t1 + cooldown is denied and reports a whole number of seconds
\* in 1..cooldown; a call at t2 >= t1 + cooldown, with no allowed call in
\* between, is allowed.  (lastCall.prev is the caller's latest allowed call.)
C1_WindowDeniesThenAllows ==
    (lastCall.kind = "call" /\ lastCall.prev # -1) =>
        IF lastCall.at - lastCall.prev < rateLimitSeconds * 1000
        THEN /\ ~lastCall.allowed
             /\ lastCall.secondsRemaining \in 1..rateLimitSeconds
        ELSE lastCall.allowed

\* C2: with a cooldown of 5 s and no prior entry, a call at clock value 0 is
\* allowed, the same client's call at 3 s is denied with 2 seconds remaining,
\* and its call at 6 s is allowed.
C2_ScenarioZeroThreeSix ==
    /\ (lastCall.kind = "call" /\ lastCall.prev = -1) => lastCall.allowed
    /\ (lastCall.kind = "call" /\ lastCall.prev = 0 /\ lastCall.at = 3000) =>
          (~lastCall.allowed /\ lastCall.secondsRemaining = 2)
    /\ (lastCall.kind = "call" /\ lastCall.prev = 0 /\ lastCall.at = 6000) =>
          lastCall.allowed

\* A step of the clean-up callback
IsSweepStep == nextSweepAt' # nextSweepAt

\* C10: the sweep removes every entry idle for more than 10 x the cooldown,
\* and the next attempt of a client whose entry a sweep removed is allowed at
\* once and records the current time as a fresh entry.
C10_SweepThenFirstEver ==
    /\ [][IsSweepStep =>
            \A ip \in DOMAIN rateLimitMap :
                (now - rateLimitMap[ip] > 10 * rateLimitSeconds * 1000)
                    => ip \notin DOMAIN rateLimitMap']_vars
    /\ [](\A ip \in evicted : ip \notin DOMAIN rateLimitMap)
    /\ []((lastCall.kind = "call" /\ lastCall.afterEviction) =>
            /\ lastCall.allowed
            /\ lastCall.ip \in DOMAIN rateLimitMap
            /\ rateLimitMap[lastCall.ip] = now)

\* C10's case: a client that had an entry, lost it to a sweep, and called again
C10_Witness ==
    /\ lastCall.kind = "call"
    /\ lastCall.afterEviction
    /\ lastCall.prev # -1
    /\ now - lastCall.prev > 10 * rateLimitSeconds * 1000
    /\ lastCall.allowed

\* The cooldown the README states, in seconds
ReadmeRateLimitSeconds == 30

\* C12: two allowed solve attempts of the same client are always at least
\* 30 seconds apart.
C12_ThirtySecondsApart ==
    (lastCall.kind = "call" /\ lastCall.allowed /\ lastCall.prev # -1) =>
        lastCall.at - lastCall.prev >= ReadmeRateLimitSeconds * 1000

\* C17: a denied checkRateLimit call leaves the rate-limit map unchanged, and
\* a client whose last allowed attempt was at t is allowed at any attempt made
\* at or after t + cooldown, whatever was denied in between.
C17_DeniedCallsDoNotExtendWait ==
    /\ [][(lastCall'.kind = "call" /\ ~lastCall'.allowed) =>
            rateLimitMap' = rateLimitMap]_vars
    /\ []((/\ lastCall.kind = "call"
           /\ lastCall.prev # -1
           /\ lastCall.at - lastCall.prev >= rateLimitSeconds * 1000)
            => lastCall.allowed)

\* C17's case: allowed again once the cooldown is over, after a denied retry
C17_Witness ==
    /\ lastCall.kind = "call"
    /\ lastCall.allowed
    /\ lastCall.deniedBefore
    /\ ~lastCall.afterEviction
    /\ lastCall.prev # -1
    /\ lastCall.at - lastCall.prev >= rateLimitSeconds * 1000
    /\ rateLimitMap[lastCall.ip] = lastCall.at

\* C18: a sweep removes exactly the entries older than 10 x the cooldown,
\* leaves every other key and timestamp as it was, and after it every
\* remaining entry is at most 10 x the cooldown old.
C18_SweepRemovesExactlyTheOld ==
    /\ [][IsSweepStep =>
            /\ DOMAIN rateLimitMap' =
                  {ip \in DOMAIN rateLimitMap :
                      ~(now - rateLimitMap[ip] > 10 * rateLimitSeconds * 1000)}
            /\ \A ip \in DOMAIN rateLimitMap' :
                  rateLimitMap'[ip] = rateLimitMap[ip]]_vars
    /\ [][IsSweepStep =>
            \A ip \in DOMAIN rateLimitMap' :
                now' - rateLimitMap'[ip] <= 10 * rateLimitSeconds * 1000]_vars

\* C18's case: a sweep has just run, removed an entry, and kept an entry that
\* is exactly 10 x the cooldown old
C18_Witness ==
    /\ nextSweepAt = now + SweepIntervalMs
    /\ lastCall.kind = "none"
    /\ evicted # {}
    /\ \E ip \in DOMAIN rateLimitMap :
          now - rateLimitMap[ip] = 10 * rateLimitSeconds * 1000

----------------------------------------------------------------------------
(* Further claims about the solve handler, checked under SpecSolve *)

\* C16: a malformed solve request (missing puzzleId, missing moves, or moves
\* not an array) is answered 400 before anything else is touched: the
\* rate-limit map is unchanged and no wallet call is made.
C16_MalformedTouchesNothing ==
    /\ [](\A r \in Requests :
            (req[r].pc # "idle" /\ Malformed(req[r])) =>
                /\ Answered(req[r])
                /\ Len(req[r].responses) = 1
                /\ StatusOf(req[r]) = 400
                /\ req[r].rl = IdleRequest.rl
                /\ req[r].getBalancesCalls = 0
                /\ req[r].sends = <<>>)
    /\ [][\A r \in Requests :
            (req[r].pc = "idle" /\ req'[r].pc # "idle" /\ Malformed(req'[r])) =>
                /\ rateLimitMap' = rateLimitMap
                /\ walletBalances' = walletBalances]_vars

\* C16's case: a malformed request of a client that has an entry in the map
\* and whose cooldown is over was answered 400, the entry as it was
C16_Witness ==
    \E r \in Requests :
        /\ Answered(req[r])
        /\ Malformed(req[r])
        /\ StatusOf(req[r]) = 400
        /\ req[r].prevAllowedAt > 0
        /\ req[r].arrivedAt - req[r].prevAllowedAt >= rateLimitSeconds * 1000
        /\ req[r].ip \in DOMAIN rateLimitMap
        /\ rateLimitMap[req[r].ip] = req[r].prevAllowedAt

----------------------------------------------------------------------------
(* Claims about requests in flight together, checked under SpecConc *)

\* C11: two requests of one client never both pass the limiter with check
\* times less than one cooldown apart, whatever the interleaving.
C11_OnePassPerWindow ==
    \A r1, r2 \in DOMAIN req :
        (/\ r1 # r2
         /\ req[r1].pc # "idle" /\ req[r2].pc # "idle"
         /\ req[r1].ip = req[r2].ip
         /\ req[r1].rl = "allowed" /\ req[r2].rl = "allowed"
         /\ req[r1].arrivedAt <= req[r2].arrivedAt)
            => req[r2].arrivedAt - req[r1].arrivedAt >= rateLimitSeconds * 1000

\* C19: send is never invoked at a moment when the pot of the active mint is
\* below the reward, whatever the interleaving of the requests, and the pot
\* never goes below zero.
C19_SendOnlyFromFullPot ==
    /\ [][\A r \in DOMAIN req :
            Len(req'[r].sends) > Len(req[r].sends) =>
                BalanceOf(walletBalances) >= puzzleReward]_vars
    /\ [](\A m \in DOMAIN walletBalances : walletBalances[m] >= 0)

----------------------------------------------------------------------------
(* Claims about the start and the other endpoints, checked under SpecApp *)

\* The steps of initWallet
InitWalletSteps == {"reposInit", "newManager", "addTestMint", "addMainMint"}

\* C13: if any step of wallet initialization fails (repository init, manager
\* construction, registration of either mint) the process terminates without
\* ever listening; it listens only after initialization succeeded.
C13_AnyInitFailureIsFatal ==
    /\ (boot.failures \cap InitWalletSteps # {}) =>
          (boot.exited /\ ~boot.listening)
    /\ boot.listening => (boot.failures = {} /\ boot.pc = "serving")

\* A JSON number that is a positive integer
IsPositiveInteger(x) ==
    /\ x.type = "number"
    /\ AllDigits(x.v)
    /\ \E i \in 1..Len(x.v) : x.v[i] # "0"

\* C14: POST /donate with an amount that is not a positive integer is answered
\* 400 without a call of createMintQuote; with a positive integer amount
\* createMintQuote is called exactly once with the active mint and the amount,
\* and a collaborator failure gives 500.
C14_DonateValidation ==
    (api.endpoint = "donate" /\ api.pc # "idle") =>
        IF ~IsPositiveInteger(api.amount)
        THEN /\ api.pc = "done"
             /\ api.responses[1].status = 400
             /\ api.calls = <<>>
        ELSE /\ api.calls =
                  <<WalletCall("createMintQuote", activeMint, api.amount, 0)>>
             /\ (api.threw # "" =>
                    (api.pc = "done" /\ api.responses[1].status = 500))

\* C15: once the dataset is loaded GET /puzzle answers 200 for every dataset
\* size, the empty one included, with a puzzle of the dataset; the request
\* leaves the rate-limit map and the wallet as they were.
C15_PuzzleAlwaysAnswered ==
    /\ []((api.endpoint = "puzzle" /\ api.pc = "done") =>
            /\ api.responses[1].status = 200
            /\ api.responses[1].puzzle \in 1..Len(dataset))
    /\ [][api'.endpoint = "puzzle" =>
            (rateLimitMap' = rateLimitMap /\ walletBalances' = walletBalances)]_vars

\* C20: GET /donate/check/:quoteId answers paid: true if and only if
\* redeemMintQuote succeeded during the request, whatever else failed, and
\* always with status 200.
C20_PaidIffRedeemed ==
    (api.endpoint = "check" /\ api.pc = "done") =>
        /\ (api.responses[1].paid = "true") <=> api.redeemed
        /\ api.responses[1].status = 200

----------------------------------------------------------------------------
(* Claims about the limiter and its clean-up, checked under Spec *)

\* C21: the clean-up never changes the result of a later checkRateLimit call:
\* in every state a call of any client returns the same answer (allowed or
\* denied, and the seconds remaining) from the map the clean-ups have swept
\* as from the map the same calls leave when no clean-up ever runs.
C21_SweepsAreInvisible ==
    \A ip \in Clients :
        checkRateLimitResult(rateLimitMap, ip, now)
            = checkRateLimitResult(unsweptMap, ip, now)

\* C21's case: a clean-up has removed entries the unswept map still holds,
\* and a client it removed has called since
C21_Witness ==
    /\ lastCall.kind = "call"
    /\ lastCall.afterEviction
    /\ lastCall.allowed
    /\ \E ip \in DOMAIN unsweptMap : ip \notin DOMAIN rateLimitMap
    /\ unsweptMap[lastCall.ip] = rateLimitMap[lastCall.ip]

\* C22: every entry of the map holds the clock value of its client's most
\* recent allowed attempt, never a later value nor the time of a denied
\* attempt; a client has an entry if and only if it had an allowed attempt
\* since the last clean-up that removed it; only checkRateLimit and the
\* clean-up modify the map.
C22_MapHoldsLatestAllowed ==
    /\ [](\A ip \in DOMAIN rateLimitMap :
            /\ ip \in Clients
            /\ rateLimitMap[ip] = lastAllowedAt[ip]
            /\ rateLimitMap[ip] <= now)
    /\ [](\A ip \in Clients :
            ip \in DOMAIN rateLimitMap <=>
                (lastAllowedAt[ip] # -1 /\ ip \notin evicted))
    /\ [][rateLimitMap' # rateLimitMap =>
            (lastCall'.kind = "call" \/ IsSweepStep)]_vars

\* C22's case: one client was denied after its latest allowed attempt and its
\* entry still holds that attempt's time, another was removed by a clean-up
\* and has no entry
C22_Witness ==
    /\ \E ip \in DOMAIN rateLimitMap :
          /\ ip \in deniedSince
          /\ rateLimitMap[ip] = lastAllowedAt[ip]
          /\ rateLimitMap[ip] < now
    /\ \E ip \in evicted :
          /\ lastAllowedAt[ip] # -1
          /\ ip \notin DOMAIN rateLimitMap

====
